---- MODULE Spec2Model ----
(***************************************************************************)
(* Model of the M5Stack button debouncer / gesture detector               *)
(* (m5stack/src/buttons.cpp, buttons.h).                                   *)
(*                                                                         *)
(* The three ButtonState records buttonA/B/C are processed by the same     *)
(* code and never alias, so one record (`button`) is modelled.  millis()   *)
(* is the variable `now`; it is advanced by the environment (Tick) and     *)
(* read by processButton and getButtonPressDuration.  The remaining        *)
(* variables record the last operation and its result, and the history of  *)
(* the raw samples and of the accepted transitions that the properties     *)
(* refer to.  They are never read by the modelled code.                    *)
(***************************************************************************)
EXTENDS Integers, Naturals, Sequences, FiniteSets, TLC

\* ---- program constants (buttons.cpp:15-17) ------------------------------
DEBOUNCE_DELAY == 50
LONG_PRESS_TIME == 1000
DOUBLE_CLICK_TIME == 400

\* width of unsigned long on the ESP32 target
ULONG_BITS == 32

\* ---- bounds of the model ---------------------------------------------------
\* the clock stops advancing once it would pass MaxTime
MaxTime == 1160
\* number of times the clock advances in one run
MaxTicks == 5
\* the counter of accepted presses saturates here
MaxPresses == 3
\* the click credit (accepted short releases minus reported clicks) saturates
MaxCredit == 3
\* the polling loop stops once the clock has reached LoopEnd
LoopEnd == 1400
\* the raw signal of the polling loop is true before LoopHoldEnd
LoopHoldEnd == 1200

\* amounts by which millis() advances between two calls; they are chosen so
\* that the thresholds are hit from both sides: 50/51 (debounce),
\* 51+50+298 = 399 / 51+51+298 = 400 (double click),
\* 949+50 = 999 / 949+51 = 1000 (long press)
Deltas == {50, 51, 298, 949}

VARIABLES now, ticks, button, op, ret, retDuration, evt,
          gRaw, gRawSince, gChanged, bounce,
          gPresses, gPrevPress, gPressGap,
          owed, credit, relKind, qClick, qLong,
          pc, longTicks, clickSeen

vars == <<now, ticks, button, op, ret, retDuration, evt,
          gRaw, gRawSince, gChanged, bounce,
          gPresses, gPrevPress, gPressGap,
          owed, credit, relKind, qClick, qLong,
          pc, longTicks, clickSeen>>

\* position and observations of the polling loop
loopVars == <<pc, longTicks, clickSeen>>

ghosts == <<gRaw, gRawSince, gChanged, bounce, gPresses, gPrevPress,
            gPressGap, owed, credit, relKind, qClick, qLong>>

\* ---- the ButtonState record (buttons.h:10-18) -----------------------------
ButtonState == [isPressed : BOOLEAN, wasLongPressed : BOOLEAN,
                wasDoubleClicked : BOOLEAN, pressedTime : Nat,
                lastPressTime : Nat, lastState : BOOLEAN,
                lastDebounceTime : Nat]

\* {false, false, false, 0, 0}: the remaining members are value-initialised
initButtons == [isPressed |-> FALSE, wasLongPressed |-> FALSE,
                wasDoubleClicked |-> FALSE, pressedTime |-> 0,
                lastPressTime |-> 0, lastState |-> FALSE,
                lastDebounceTime |-> 0]

\* unsigned long subtraction: a - b modulo 2^32.  The clock of the model stays
\* below MaxTime and every stored time stamp is an earlier reading of it
\* (TimesInPast), so the wrapping branch is never taken here.
Sub(a, b) == IF a >= b THEN a - b ELSE (a - b) + 2 ^ ULONG_BITS

\* ---- processButton (buttons.cpp:37-79) ------------------------------------
RestartDebounce(b, currentState, currentTime) ==
    IF currentState # b.lastState
      THEN [b EXCEPT !.lastDebounceTime = currentTime]
      ELSE b

\* variant: the debounce test accepts at exactly DEBOUNCE_DELAY
DebounceElapsedAtDelay(b, currentTime) ==
    Sub(currentTime, b.lastDebounceTime) >= DEBOUNCE_DELAY

DebounceElapsed(b, currentTime) ==
    Sub(currentTime, b.lastDebounceTime) > DEBOUNCE_DELAY

\* variant: the double-click window includes DOUBLE_CLICK_TIME itself
IsDoubleClickInclusive(b, currentTime) ==
    Sub(currentTime, b.lastPressTime) <= DOUBLE_CLICK_TIME

IsDoubleClick(b, currentTime) ==
    Sub(currentTime, b.lastPressTime) < DOUBLE_CLICK_TIME

\* variant: a hold of exactly LONG_PRESS_TIME is not a long press
IsLongPressStrict(b, currentTime) ==
    Sub(currentTime, b.pressedTime) > LONG_PRESS_TIME

IsLongPress(b, currentTime) ==
    Sub(currentTime, b.pressedTime) >= LONG_PRESS_TIME

\* variant: accepting a press also drops an unread long press
OnPressClearsLong(b, currentTime) ==
    [b EXCEPT !.pressedTime = currentTime,
              !.wasDoubleClicked = IsDoubleClick(b, currentTime),
              !.lastPressTime = currentTime,
              !.wasLongPressed = FALSE]

\* "Button just pressed"
OnPress(b, currentTime) ==
    [b EXCEPT !.pressedTime = currentTime,
              !.wasDoubleClicked = IsDoubleClick(b, currentTime),
              !.lastPressTime = currentTime]

\* variant: accepting a release also drops an unread double click
OnReleaseClearsDouble(b, currentTime) ==
    [b EXCEPT !.wasLongPressed = IsLongPress(b, currentTime),
              !.wasDoubleClicked = FALSE]

\* variant: the double-click window is restarted at the release
OnReleaseRestartsWindow(b, currentTime) ==
    [b EXCEPT !.wasLongPressed = IsLongPress(b, currentTime),
              !.lastPressTime = currentTime]

\* "Button just released"
OnRelease(b, currentTime) ==
    [b EXCEPT !.wasLongPressed = IsLongPress(b, currentTime)]

\* the body of the debounce-elapsed branch
Stable(b, currentState, currentTime) ==
    LET previousPressed == b.isPressed
        b1 == [b EXCEPT !.isPressed = currentState]
        b2 == IF b1.isPressed /\ ~previousPressed
                THEN OnPress(b1, currentTime) ELSE b1
        b3 == IF ~b2.isPressed /\ previousPressed
                THEN OnRelease(b2, currentTime) ELSE b2
    IN b3

processButton(b, currentState, currentTime) ==
    LET b1 == RestartDebounce(b, currentState, currentTime)
        b2 == IF DebounceElapsed(b1, currentTime)
                THEN Stable(b1, currentState, currentTime) ELSE b1
    IN [b2 EXCEPT !.lastState = currentState]

\* ---- queries (buttons.cpp:81-107, 127-132) --------------------------------
isButtonPressed(b) == b.isPressed

wasButtonClickedResult(b) ==
    ~b.isPressed /\ b.lastState /\ ~b.wasLongPressed

\* variant: reporting a click also drops an unread double click
wasButtonClickedStateClearsDouble(b) ==
    IF wasButtonClickedResult(b)
      THEN [b EXCEPT !.lastState = FALSE, !.wasDoubleClicked = FALSE]
      ELSE b

wasButtonClickedState(b) ==
    IF wasButtonClickedResult(b) THEN [b EXCEPT !.lastState = FALSE] ELSE b

wasButtonLongPressedResult(b) == b.wasLongPressed

\* variant: the read does not clear the flag
wasButtonLongPressedStateKeeps(b) == b

wasButtonLongPressedState(b) ==
    IF b.wasLongPressed THEN [b EXCEPT !.wasLongPressed = FALSE] ELSE b

wasButtonDoubleClickedResult(b) == b.wasDoubleClicked

wasButtonDoubleClickedState(b) ==
    IF b.wasDoubleClicked THEN [b EXCEPT !.wasDoubleClicked = FALSE] ELSE b

\* variant: the duration is computed without testing isPressed
getButtonPressDurationAlways(b, currentTime) ==
    Sub(currentTime, b.pressedTime)

getButtonPressDuration(b, currentTime) ==
    IF b.isPressed THEN Sub(currentTime, b.pressedTime) ELSE 0

\* ---- helpers of the history variables -------------------------------------
Min(a, b) == IF a < b THEN a ELSE b

TriState(r, q) == IF r THEN "yes" ELSE IF q = "yes" THEN "yes" ELSE "no"

\* ---- initial state ---------------------------------------------------------
Init ==
    /\ now = 0
    /\ ticks = 0
    /\ button = initButtons
    /\ op = "init"
    /\ ret = FALSE
    /\ retDuration = 0
    /\ evt = "none"
    /\ gRaw = FALSE
    /\ gRawSince = 0
    /\ gChanged = FALSE
    /\ bounce = TRUE
    /\ gPresses = 0
    /\ gPrevPress = 0
    /\ gPressGap = 0
    /\ owed = FALSE
    /\ credit = 0
    /\ relKind = "none"
    /\ qClick = "none"
    /\ qLong = "none"
    /\ pc = "sample"
    /\ longTicks = 0
    /\ clickSeen = FALSE

\* ---- actions ---------------------------------------------------------------
\* millis() advances between two calls
Tick ==
    \E d \in Deltas :
        /\ now + d <= MaxTime
        /\ ticks < MaxTicks
        /\ ticks' = ticks + 1
        /\ now' = now + d
        /\ op' = "tick"
        /\ ret' = FALSE
        /\ retDuration' = 0
        /\ evt' = "none"
        /\ UNCHANGED <<button, ghosts, loopVars>>

\* processButton(&button, currentState) and the history it leaves
SampleWith(currentState) ==
        LET nb == processButton(button, currentState, now)
            pressed == nb.isPressed /\ ~button.isPressed
            released == ~nb.isPressed /\ button.isPressed
            hold == now - gPrevPress
            changed == currentState # gRaw
            since == IF changed THEN now ELSE gRawSince
        IN
        /\ button' = nb
        /\ op' = "processButton"
        /\ ret' = FALSE
        /\ retDuration' = 0
        /\ evt' = IF pressed THEN "press" ELSE IF released THEN "release" ELSE "none"
        /\ gRaw' = currentState
        /\ gRawSince' = since
        /\ gChanged' = (gChanged \/ changed)
        /\ bounce' = IF changed
                       THEN bounce /\ (~gChanged \/ now - gRawSince < DEBOUNCE_DELAY)
                       ELSE bounce /\ (~currentState \/ now - gRawSince < DEBOUNCE_DELAY)
        /\ gPresses' = IF pressed THEN Min(gPresses + 1, MaxPresses) ELSE gPresses
        /\ gPrevPress' = IF pressed THEN now ELSE gPrevPress
        /\ gPressGap' = IF pressed THEN now - gPrevPress ELSE gPressGap
        /\ owed' = IF released THEN hold < LONG_PRESS_TIME ELSE owed
        /\ credit' = IF released /\ hold < LONG_PRESS_TIME /\ credit >= 0
                       THEN Min(credit + 1, MaxCredit) ELSE credit
        /\ relKind' = IF released
                        THEN (IF hold < LONG_PRESS_TIME THEN "short" ELSE "long")
                        ELSE IF currentState THEN "none" ELSE relKind
        /\ qClick' = IF released \/ currentState THEN "none" ELSE qClick
        /\ qLong' = IF released \/ currentState THEN "none" ELSE qLong
        /\ UNCHANGED <<now, ticks>>

\* updateButtonStates: processButton(&button, raw) with the sampled raw level
Sample ==
    \E currentState \in BOOLEAN :
        SampleWith(currentState) /\ UNCHANGED loopVars

\* variant: the read consumes the raw-sample bookkeeping
IsPressedQueryTouching ==
    /\ op' = "isButtonPressed"
    /\ ret' = isButtonPressed(button)
    /\ button' = [button EXCEPT !.lastState = FALSE]
    /\ retDuration' = 0
    /\ evt' = "none"
    /\ UNCHANGED <<now, ticks, ghosts, loopVars>>

IsPressedQuery ==
    /\ op' = "isButtonPressed"
    /\ ret' = isButtonPressed(button)
    /\ retDuration' = 0
    /\ evt' = "none"
    /\ UNCHANGED <<now, ticks, button, ghosts, loopVars>>

ClickedCall ==
    /\ op' = "wasButtonClicked"
    /\ ret' = wasButtonClickedResult(button)
    /\ button' = wasButtonClickedState(button)
    /\ retDuration' = 0
    /\ evt' = "none"
    /\ owed' = FALSE
    /\ credit' = IF wasButtonClickedResult(button) /\ credit >= 0
                   THEN credit - 1 ELSE credit
    /\ qClick' = IF relKind = "none" THEN "none"
                 ELSE TriState(wasButtonClickedResult(button), qClick)
    /\ UNCHANGED <<now, ticks, gRaw, gRawSince, gChanged, bounce, gPresses,
                   gPrevPress, gPressGap, relKind, qLong>>

ClickedQuery == ClickedCall /\ UNCHANGED loopVars

LongPressedCall ==
    /\ op' = "wasButtonLongPressed"
    /\ ret' = wasButtonLongPressedResult(button)
    /\ button' = wasButtonLongPressedState(button)
    /\ retDuration' = 0
    /\ evt' = "none"
    /\ qLong' = IF relKind = "none" THEN "none"
                ELSE TriState(wasButtonLongPressedResult(button), qLong)
    /\ UNCHANGED <<now, ticks, gRaw, gRawSince, gChanged, bounce, gPresses,
                   gPrevPress, gPressGap, owed, credit, relKind, qClick>>

LongPressedQuery == LongPressedCall /\ UNCHANGED loopVars

DoubleClickedCall ==
    /\ op' = "wasButtonDoubleClicked"
    /\ ret' = wasButtonDoubleClickedResult(button)
    /\ button' = wasButtonDoubleClickedState(button)
    /\ retDuration' = 0
    /\ evt' = "none"
    /\ UNCHANGED <<now, ticks, ghosts>>

DoubleClickedQuery == DoubleClickedCall /\ UNCHANGED loopVars

PressDurationQuery ==
    /\ op' = "getButtonPressDuration"
    /\ ret' = FALSE
    /\ retDuration' = getButtonPressDuration(button, now)
    /\ evt' = "none"
    /\ UNCHANGED <<now, ticks, button, ghosts, loopVars>>

Next ==
    \/ Tick
    \/ Sample
    \/ IsPressedQuery
    \/ ClickedQuery
    \/ LongPressedQuery
    \/ DoubleClickedQuery
    \/ PressDurationQuery

Spec == Init /\ [][Next]_vars

\* ---- the polling loop ------------------------------------------------------
\* One tick of the loop samples the button and then reads the three gesture
\* queries; the raw signal is true from t = 0 and false from LoopHoldEnd on.
LoopSpacing == {20, 30, 100}

RawAt(t) == t < LoopHoldEnd

\* delay(...) between two ticks of the loop
LoopDelay ==
    /\ pc = "delay"
    /\ now < LoopEnd
    /\ \E d \in LoopSpacing : now' = now + d
    /\ pc' = "sample"
    /\ op' = "tick"
    /\ ret' = FALSE
    /\ retDuration' = 0
    /\ evt' = "none"
    /\ UNCHANGED <<ticks, button, ghosts, longTicks, clickSeen>>

LoopSample ==
    /\ pc = "sample"
    /\ SampleWith(RawAt(now))
    /\ pc' = "clicked"
    /\ UNCHANGED <<longTicks, clickSeen>>

LoopClicked ==
    /\ pc = "clicked"
    /\ ClickedCall
    /\ pc' = "long"
    /\ clickSeen' = (clickSeen \/ ret')
    /\ UNCHANGED longTicks

LoopLongPressed ==
    /\ pc = "long"
    /\ LongPressedCall
    /\ pc' = "double"
    /\ longTicks' = IF ret' THEN Min(longTicks + 1, 2) ELSE longTicks
    /\ UNCHANGED clickSeen

LoopDoubleClicked ==
    /\ pc = "double"
    /\ DoubleClickedCall
    /\ pc' = "delay"
    /\ UNCHANGED <<longTicks, clickSeen>>

NextLoop ==
    \/ LoopDelay
    \/ LoopSample
    \/ LoopClicked
    \/ LoopLongPressed
    \/ LoopDoubleClicked

SpecLoop == Init /\ [][NextLoop]_vars

TypeOK ==
    /\ now \in 0..MaxTime
    /\ button \in ButtonState
    /\ ret \in BOOLEAN
    /\ retDuration \in Nat

\* every time stamp of the record is a past reading of millis()
TimesInPast ==
    /\ button.lastDebounceTime <= now
    /\ button.pressedTime <= now
    /\ button.lastPressTime <= now

\* ---- properties ------------------------------------------------------------

\* C1 (debounce safety): a step changes isPressed only if it is a
\* processButton call whose raw value equals the one of the previous call and
\* of every call made since gRawSince, the time of the last change of the raw
\* value between two calls, and more than DEBOUNCE_DELAY has passed since then.
DebounceSafety ==
    [][(button'.isPressed # button.isPressed) =>
          /\ op' = "processButton"
          /\ gRaw' = gRaw
          /\ gRawSince' = gRawSince
          /\ now' - gRawSince' > DEBOUNCE_DELAY]_vars

\* a release has been accepted (after a press was accepted before it)
DebounceSafetyWitness ==
    /\ op = "processButton"
    /\ evt = "release"
    /\ gPresses >= 1

\* C2 (debounce suppression), as claimed: while every two consecutive raw
\* changes were less than DEBOUNCE_DELAY apart and raw was never seen true
\* DEBOUNCE_DELAY or more after its last change, isPressed is false, no
\* gesture flag is set and wasButtonClicked does not return true.
BounceNeverReports ==
    bounce =>
        /\ ~button.isPressed
        /\ ~button.wasLongPressed
        /\ ~button.wasDoubleClicked
        /\ ~(op = "wasButtonClicked" /\ ret)

\* C3 (stable transition), as claimed: a processButton call made more than
\* DEBOUNCE_DELAY after the last change of the raw value leaves isPressed equal
\* to that value, whatever queries were called between the samples.
StableTransition ==
    (op = "processButton" /\ now - gRawSince > DEBOUNCE_DELAY) =>
        button.isPressed = gRaw

\* C4 (click delivery), as claimed: the first wasButtonClicked call after an
\* accepted release with hold duration below LONG_PRESS_TIME returns true.
ClickDelivery ==
    [][(op' = "wasButtonClicked" /\ owed) => ret']_vars

\* C5 (click at most once), as claimed: wasButtonClicked has never returned
\* true more often than releases with hold duration below LONG_PRESS_TIME
\* have been accepted.
ClickAtMostOnce == credit >= 0

\* C6 (click versus long press), as claimed: once both queries have been
\* called after an accepted release and before the next raw press is sampled,
\* exactly one of them has returned true: wasButtonClicked for a hold below
\* LONG_PRESS_TIME, wasButtonLongPressed otherwise; and after a long release
\* wasButtonClicked has not returned true.
ClickXorLongPress ==
    /\ (relKind # "none" /\ qClick # "none" /\ qLong # "none") =>
          /\ (qClick = "yes") # (qLong = "yes")
          /\ (qClick = "yes") <=> (relKind = "short")
    /\ (relKind = "long") => (qClick # "yes")

DoubleClickWindow ==
    (evt = "press" /\ gPresses >= 2) =>
        (button.wasDoubleClicked <=> (gPressGap < DOUBLE_CLICK_TIME))

\* a third press accepted less than DOUBLE_CLICK_TIME after the second
DoubleClickWindowWitness ==
    /\ evt = "press"
    /\ gPresses = 3
    /\ gPressGap < DOUBLE_CLICK_TIME
    /\ button.wasDoubleClicked

\* C10 (long-press threshold): the call accepting a release leaves
\* wasLongPressed set exactly when the hold duration, measured from the
\* acceptance of the press, is LONG_PRESS_TIME or more.
LongPressThreshold ==
    (evt = "release") =>
        (button.wasLongPressed <=> (now - gPrevPress >= LONG_PRESS_TIME))

\* a release accepted exactly LONG_PRESS_TIME after its press
LongPressThresholdWitness ==
    /\ evt = "release"
    /\ now - gPrevPress = LONG_PRESS_TIME
    /\ button.wasLongPressed

\* C12 (read-clear idempotence): wasButtonLongPressed and
\* wasButtonDoubleClicked return the value their flag had and leave it false;
\* a call that directly follows a call of the same query returns false.
ReadClearIdempotence ==
    [][/\ (op' = "wasButtonLongPressed") =>
             /\ ret' = button.wasLongPressed
             /\ ~button'.wasLongPressed
       /\ (op' = "wasButtonDoubleClicked") =>
             /\ ret' = button.wasDoubleClicked
             /\ ~button'.wasDoubleClicked
       /\ (op = "wasButtonLongPressed" /\ op' = "wasButtonLongPressed") => ~ret'
       /\ (op = "wasButtonDoubleClicked" /\ op' = "wasButtonDoubleClicked") => ~ret'
      ]_vars

\* a set long-press flag has just been delivered and cleared
ReadClearWitness ==
    /\ op = "wasButtonLongPressed"
    /\ ret
    /\ ~button.wasLongPressed
    /\ relKind = "long"

\* C13 (pure reads): isButtonPressed returns isPressed, and neither it nor
\* getButtonPressDuration changes any field of the ButtonState.
PureReads ==
    [][/\ (op' = "isButtonPressed") =>
             /\ ret' = button.isPressed
             /\ button' = button
       /\ (op' = "getButtonPressDuration") => button' = button
      ]_vars

\* isButtonPressed has been called between a raw press sample and the sample
\* that would accept it
PureReadsWitness ==
    /\ op = "isButtonPressed"
    /\ ~ret
    /\ button.lastState
    /\ now - button.lastDebounceTime > DEBOUNCE_DELAY

\* C15 (press duration): getButtonPressDuration returns the time since the
\* processButton call that accepted the current press while isPressed is
\* true, and 0 while it is false.
PressDuration ==
    (op = "getButtonPressDuration") =>
        retDuration = (IF button.isPressed THEN now - gPrevPress ELSE 0)

\* the duration of a press held for a long time has been read
PressDurationWitness ==
    /\ op = "getButtonPressDuration"
    /\ button.isPressed
    /\ retDuration >= LONG_PRESS_TIME

\* C16 (consuming reads touch only their own flag): wasButtonLongPressed
\* changes at most wasLongPressed, wasButtonDoubleClicked at most
\* wasDoubleClicked, wasButtonClicked at most lastState; none of them changes
\* isPressed.
ConsumingReadsFrame ==
    [][/\ (op' = "wasButtonLongPressed") =>
             button' = [button EXCEPT !.wasLongPressed = button'.wasLongPressed]
       /\ (op' = "wasButtonDoubleClicked") =>
             button' = [button EXCEPT !.wasDoubleClicked = button'.wasDoubleClicked]
       /\ (op' = "wasButtonClicked") =>
             button' = [button EXCEPT !.lastState = button'.lastState]
      ]_vars

\* wasButtonClicked has returned true, and cleared lastState, while an unread
\* double click was pending
ConsumingReadsWitness ==
    /\ op = "wasButtonClicked"
    /\ ~button.lastState
    /\ gRaw
    /\ button.wasDoubleClicked

\* C14 (independence of the two classifications): a processButton call that
\* accepts a release leaves wasDoubleClicked, pressedTime and lastPressTime
\* unchanged, and one that accepts a press leaves wasLongPressed unchanged; so
\* a press accepted after a long hold is compared with the start of that hold
\* and sets no double click while the long press is still unread.
ClassificationsIndependent ==
    [][/\ (evt' = "release") =>
             /\ button'.wasDoubleClicked = button.wasDoubleClicked
             /\ button'.pressedTime = button.pressedTime
             /\ button'.lastPressTime = button.lastPressTime
             /\ button'.lastPressTime = gPrevPress
       /\ (evt' = "press") =>
             /\ button'.wasLongPressed = button.wasLongPressed
             /\ button.wasLongPressed => ~button'.wasDoubleClicked
      ]_vars

\* a second press accepted shortly after the release of a long hold: no
\* double click, long press still unread
ClassificationsIndependentWitness ==
    /\ evt = "press"
    /\ gPresses = 2
    /\ gPressGap >= LONG_PRESS_TIME
    /\ button.wasLongPressed
    /\ ~button.wasDoubleClicked

\* C17 (implicit), as claimed: lastState always equals the raw value passed
\* to the latest processButton call, whatever queries were called since.
LastStateIsLastRaw == button.lastState = gRaw

\* C18 (implicit), as claimed: wasDoubleClicked is set only when at least two
\* presses have been accepted.
FirstPressNoDoubleClick == button.wasDoubleClicked => gPresses >= 2

\* C11 (end-to-end long press), as claimed: in the polling loop with raw true
\* until LoopHoldEnd, wasButtonClicked never returns true, and
\* wasButtonLongPressed returns true on exactly one tick, which has happened
\* by the time the loop has run LoopEnd milliseconds.
LoopLongPressOnce ==
    /\ ~clickSeen
    /\ longTicks <= 1
    /\ (pc = "delay" /\ now >= LoopEnd) => longTicks = 1

====
